---- MODULE Spec2Model ----
(***************************************************************************)
(* Model of the Pipeline coordinator of lsst/pex_harness (src/Pipeline.cc) *)
(* and of the Slice workers it drives over the MPI intercommunicator       *)
(* sliceIntercomm.  The coordinator's methods are translated from          *)
(* Pipeline.cc; the caller of those methods (the stage loop) and the       *)
(* worker's receive loop are not part of Pipeline.cc and follow spec.md    *)
(* sections 4.3 and 4.4.                                                   *)
(***************************************************************************)
EXTENDS Integers, Sequences, FiniteSets, TLC

\* ---------------------------------------------------------------- bounds
MaxUniverse == 3
MaxStages == 3
MaxRequests == 1
MaxGarbage == 2
MaxNameLen == 3
MaxArg == 2

\* ------------------------------------------------------- program constants
BufferSizeConfigured == 256
ExitFailure == 1
ExitSuccess == 0
\* 128 + SIGSEGV: the status of a process killed by the fault at line 100.
SegvExit == 139

MPI_SUCCESS == "MPI_SUCCESS"
MPI_ERR == "MPI_ERR"
MPIResults == {MPI_SUCCESS, MPI_ERR}
MPI_ROOT == "MPI_ROOT"

NUL == "NUL"
CONTINUE == <<"C", "O", "N", "T", "I", "N", "U", "E">>
SHUTDOWN == <<"S", "H", "U", "T", "D", "O", "W", "N">>
SYNC == <<"S", "Y", "N", "C">>
PROCESS == <<"P", "R", "O", "C", "E", "S", "S">>
Commands == {CONTINUE, SHUTDOWN, SYNC, PROCESS}

MaxSlices == MaxUniverse - 1
SliceIds == 1..MaxSlices

VARIABLES
    pc,             \* position of the coordinator process
    mpiError,       \* Pipeline::mpiError, the last MPI return code
    flag,           \* the flag MPI_Attr_get stored (attribute found or not)
    universeSize,   \* Pipeline::universeSize
    nSlices,        \* Pipeline::nSlices
    bufferSize,     \* Pipeline::bufferSize
    spawnRequested, \* the maxprocs argument of every MPI_Comm_spawn call made
    finalized,      \* MPI_Finalize has been called by the coordinator
    exitCode,       \* the argument of exit(), meaningful when pc = "exited"
    exitedFrom,     \* the position the coordinator exited from
    chan,           \* the collectives the coordinator issued on sliceIntercomm
    nStages,        \* length of the configured stage list
    iStage,         \* next stage index of the stage loop
    nSyncs,         \* SYNC rounds the caller has completed
    nContinues,     \* CONTINUE commands the caller has completed
    wpc,            \* position of each worker
    wcalls,         \* number of collective calls each worker has made
    wstage,         \* stage index each worker last received
    wdoneStages,    \* stage indices whose callback each worker completed
    wsync,          \* peer-exchange callbacks each worker completed
    wexit,          \* exit code of each worker that has exited
    codec           \* one encoding of a name into a command buffer, and its decoding

coordVars == <<pc, mpiError, flag, universeSize, nSlices, bufferSize,
               spawnRequested, finalized, exitCode, exitedFrom, chan>>
driverVars == <<nStages, iStage, nSyncs, nContinues>>
workerVars == <<wpc, wcalls, wstage, wdoneStages, wsync, wexit>>
vars == <<coordVars, driverVars, workerVars, codec>>

Slices == 1..nSlices

\* ------------------------------------------------------------ wire framing
\* Mutant: the name is copied without its terminator.
Mut_strcpy_NoTerminator(name) == name

\* std::strcpy(procCommand, name): the name followed by its terminator; the
\* rest of the buffer is not written.
strcpy(name) == name \o <<NUL>>

\* The C string held by a buffer: the characters before the first terminator.
CString(buf) ==
    LET terminators == {i \in 1..Len(buf) : buf[i] = NUL}
    IN IF terminators = {} THEN buf
       ELSE SubSeq(buf, 1, (CHOOSE i \in terminators :
                              \A j \in terminators : i <= j) - 1)

\* Mutant: the stage index is broadcast with MPI_PROC_NULL as root argument,
\* which names a process of the remote group as the sender.
Mut_BcastInt_NotRoot(value) ==
    [kind |-> "int", count |-> 1, data |-> <<value>>, root |-> "MPI_PROC_NULL"]

\* Mutant: only the name and its terminator are broadcast, so the length of
\* the message depends on the command.
Mut_BcastChars_StrlenCount(buf, count) ==
    [kind |-> "chars", count |-> Len(buf), data |-> buf, root |-> MPI_ROOT]

\* The collective calls as the channel sees them.
BcastChars(buf, count) ==
    [kind |-> "chars", count |-> count, data |-> buf, root |-> MPI_ROOT]
BcastInt(value) ==
    [kind |-> "int", count |-> 1, data |-> <<value>>, root |-> MPI_ROOT]
Barrier ==
    [kind |-> "barrier", count |-> 0, data |-> <<>>, root |-> "none"]

\* No encoding in progress.
NoCodec == [step |-> "none", name |-> <<>>, written |-> <<>>, sent |-> <<>>,
            out |-> <<>>]

\* -------------------------------------------------------------------- Init
Init ==
    /\ pc = "constructed"
    /\ mpiError = MPI_SUCCESS
    /\ flag = TRUE
    /\ universeSize = 0
    /\ nSlices = 0
    /\ bufferSize = 0
    /\ spawnRequested = <<>>
    /\ finalized = FALSE
    /\ exitCode = 0
    /\ exitedFrom = "none"
    /\ chan = <<>>
    /\ nStages \in 0..MaxStages
    /\ iStage = 0
    /\ nSyncs = 0
    /\ nContinues = 0
    /\ wpc = [w \in SliceIds |-> "NotSpawned"]
    /\ wcalls = [w \in SliceIds |-> 0]
    /\ wstage = [w \in SliceIds |-> 0]
    /\ wdoneStages = [w \in SliceIds |-> {}]
    /\ wsync = [w \in SliceIds |-> 0]
    /\ wexit = [w \in SliceIds |-> 0]
    /\ codec = NoCodec

\* ------------------------------------------------------------- coordinator
\* MPI_Finalize(); exit(code);
FinalizeAndExit(code) ==
    /\ finalized' = TRUE
    /\ exitCode' = code
    /\ exitedFrom' = pc
    /\ pc' = "exited"

\* Mutant: the failure path exits with exit(0).
Mut_FailedCall_ExitZero ==
    /\ mpiError' = MPI_ERR
    /\ FinalizeAndExit(ExitSuccess)

\* if (mpiError != MPI_SUCCESS) { MPI_Finalize(); exit(1); }
FailedCall ==
    /\ mpiError' = MPI_ERR
    /\ FinalizeAndExit(ExitFailure)

\* Mutant: no slot is reserved for the coordinator.
Mut_computeNSlices_NoReserve(u) == u

\* nSlices = universeSize-1;
computeNSlices(u) == u - 1

\* The values *universeSizep can yield when MPI_Attr_get left the pointer
\* unset (flag false): any integer, here the small ones.
GarbageUniverse == 0..MaxGarbage

\* Pipeline::initialize: initializeMPI then configurePipeline.
initialize ==
    /\ pc = "constructed"
    /\ \E rcInit \in MPIResults, rcRank \in MPIResults, rcSize \in MPIResults,
          rcAttr \in MPIResults, f \in BOOLEAN, crash \in BOOLEAN,
          u \in GarbageUniverse \cup (1..MaxUniverse) :
        IF \E rc \in {rcInit, rcRank, rcSize, rcAttr} : rc # MPI_SUCCESS
        THEN /\ FailedCall
             /\ UNCHANGED <<flag, universeSize, nSlices, bufferSize>>
        ELSE /\ mpiError' = MPI_SUCCESS
             /\ flag' = f
             /\ IF ~f /\ crash
                THEN \* reading through the unset pointer faults
                     /\ exitCode' = SegvExit
                     /\ exitedFrom' = pc
                     /\ pc' = "exited"
                     /\ UNCHANGED <<universeSize, nSlices, bufferSize, finalized>>
                ELSE /\ IF f THEN u \in 1..MaxUniverse ELSE u \in GarbageUniverse
                     /\ universeSize' = u
                     /\ nSlices' = computeNSlices(u)
                     /\ bufferSize' = BufferSizeConfigured
                     /\ pc' = "initialized"
                     /\ UNCHANGED <<finalized, exitCode, exitedFrom>>
    /\ UNCHANGED <<spawnRequested, chan, driverVars, workerVars, codec>>

\* Mutant: startSlices treats an empty fleet as a spawn failure.
Mut_startSlices_RejectsEmptyFleet ==
    /\ pc = "initialized"
    /\ spawnRequested' = Append(spawnRequested, nSlices)
    /\ \E rc \in MPIResults :
        IF rc # MPI_SUCCESS \/ nSlices <= 0
        THEN /\ FailedCall
             /\ UNCHANGED wpc
        ELSE /\ mpiError' = MPI_SUCCESS
             /\ pc' = "idle"
             /\ wpc' = [w \in SliceIds |->
                          IF w \in Slices THEN "Listening" ELSE wpc[w]]
             /\ UNCHANGED <<finalized, exitCode, exitedFrom>>
    /\ UNCHANGED <<flag, universeSize, nSlices, bufferSize, chan, driverVars,
                   wcalls, wstage, wdoneStages, wsync, wexit, codec>>

\* Pipeline::startSlices: MPI_Comm_spawn of nSlices workers running
\* runSlice.py; on success every worker joins sliceIntercomm and listens.
startSlices ==
    /\ pc = "initialized"
    /\ spawnRequested' = Append(spawnRequested, nSlices)
    /\ \E rc \in MPIResults :
        IF rc # MPI_SUCCESS \/ nSlices < 0
        THEN /\ FailedCall
             /\ UNCHANGED wpc
        ELSE /\ mpiError' = MPI_SUCCESS
             /\ pc' = "idle"
             /\ wpc' = [w \in SliceIds |->
                          IF w \in Slices THEN "Listening" ELSE wpc[w]]
             /\ UNCHANGED <<finalized, exitCode, exitedFrom>>
    /\ UNCHANGED <<flag, universeSize, nSlices, bufferSize, chan, driverVars,
                   wcalls, wstage, wdoneStages, wsync, wexit, codec>>

\* The stage loop that calls the coordinator's methods (spec.md 4.3, run):
\* runStage for each stage index in order, then shutdownFleet; a SYNC round
\* or a CONTINUE may be requested between rounds.
RunCallsRunStage == pc = "idle" /\ iStage < nStages
RunCallsShutdownFleet == pc = "idle" /\ iStage = nStages
CallerRequestsSync == pc = "idle" /\ nSyncs + nContinues < MaxRequests
CallerRequestsContinue == pc = "idle" /\ nSyncs + nContinues < MaxRequests

\* Mutant: the return code is stored and never checked.
Mut_CheckedCollective_Unchecked(rc, entry, next) ==
    /\ mpiError' = rc
    /\ chan' = Append(chan, entry)
    /\ pc' = next
    /\ UNCHANGED <<finalized, exitCode, exitedFrom>>

\* One collective call of the coordinator followed by its error check:
\* on MPI_SUCCESS the call is on the channel and the method goes on at
\* position next; otherwise MPI_Finalize(); exit(1).
CheckedCollective(rc, entry, next) ==
    IF rc = MPI_SUCCESS
    THEN /\ mpiError' = MPI_SUCCESS
         /\ chan' = Append(chan, entry)
         /\ pc' = next
         /\ UNCHANGED <<finalized, exitCode, exitedFrom>>
    ELSE /\ FailedCall
         /\ UNCHANGED chan

\* Mutant: the barrier returns as soon as one worker has entered it.
Mut_AllSlicesEntered_AnyOne ==
    Slices = {} \/ \E w \in Slices : wcalls[w] >= Len(chan)

\* MPI_Barrier(sliceIntercomm) returns at the coordinator only after every
\* process of the remote group has entered its matching call.
AllSlicesEntered == \A w \in Slices : wcalls[w] >= Len(chan)

\* The coordinator waits inside MPI_Barrier: it returns MPI_SUCCESS once all
\* workers have entered, or reports a failure.
BarrierWait(rc, next) ==
    IF rc = MPI_SUCCESS
    THEN /\ AllSlicesEntered
         /\ mpiError' = MPI_SUCCESS
         /\ pc' = next
         /\ UNCHANGED <<finalized, exitCode, exitedFrom>>
    ELSE FailedCall

coordFrame ==
    UNCHANGED <<flag, universeSize, nSlices, bufferSize, spawnRequested, codec>>

\* Pipeline::invokeProcess(iStage), line 226: broadcast of "PROCESS".
\* (The processCommand[nSlices][bufferSize] array of lines 217-220 is a
\* local that is written and never read.)
invokeProcess_Called(caller) ==
    /\ caller
    /\ \E rc \in MPIResults :
         CheckedCollective(rc, BcastChars(strcpy(PROCESS), bufferSize),
                           "process_bcast_stage")
    /\ coordFrame
    /\ UNCHANGED <<driverVars, workerVars>>

\* invokeProcess called by the stage loop.
invokeProcess_BcastCommand == invokeProcess_Called(RunCallsRunStage)

\* Mutant: invokeProcess rejects an index outside the stage list and exits.
Mut_invokeProcess_AnyIndex_Validated ==
    /\ pc = "idle" /\ iStage \in (0 - MaxArg)..MaxArg
    /\ IF iStage < 0 \/ iStage >= nStages
       THEN /\ FinalizeAndExit(ExitFailure)
            /\ UNCHANGED <<mpiError, chan>>
       ELSE \E rc \in MPIResults :
              CheckedCollective(rc, BcastChars(strcpy(PROCESS), bufferSize),
                                "process_bcast_stage")
    /\ coordFrame
    /\ UNCHANGED <<driverVars, workerVars>>

\* void Pipeline::invokeProcess(int iStage) is public and takes any int: a
\* caller that passes successive integers starting anywhere, inside or
\* outside the stage list.
StageArgs == (0 - MaxArg)..MaxArg
CallerPassesAnyIndex == pc = "idle" /\ iStage \in StageArgs
invokeProcess_AnyIndex == invokeProcess_Called(CallerPassesAnyIndex)

\* Mutant: the stage index is broadcast one-based.
Mut_invokeProcess_BcastStage_OneBased ==
    /\ pc = "process_bcast_stage"
    /\ \E rc \in MPIResults :
         CheckedCollective(rc, BcastInt(iStage + 1), "process_barrier")
    /\ coordFrame
    /\ UNCHANGED <<driverVars, workerVars>>

\* Pipeline::invokeProcess, line 232: broadcast of iStage.
invokeProcess_BcastStage ==
    /\ pc = "process_bcast_stage"
    /\ \E rc \in MPIResults :
         CheckedCollective(rc, BcastInt(iStage), "process_barrier")
    /\ coordFrame
    /\ UNCHANGED <<driverVars, workerVars>>

\* Mutant: invokeProcess returns after the stage index broadcast, with no
\* MPI_Barrier.
Mut_invokeProcess_BarrierEnter_Skipped ==
    /\ pc = "process_barrier"
    /\ pc' = "idle"
    /\ iStage' = iStage + 1
    /\ coordFrame
    /\ UNCHANGED <<mpiError, finalized, exitCode, exitedFrom, chan,
                   nStages, nSyncs, nContinues, workerVars>>

\* Pipeline::invokeProcess, line 238: the coordinator enters MPI_Barrier.
invokeProcess_BarrierEnter ==
    /\ pc = "process_barrier"
    /\ CheckedCollective(MPI_SUCCESS, Barrier, "process_wait")
    /\ coordFrame
    /\ UNCHANGED <<driverVars, workerVars>>

\* Mutant: the coordinator leaves the stage barrier without waiting for the
\* workers.
Mut_invokeProcess_BarrierReturn_NoWait ==
    /\ pc = "process_wait"
    /\ pc' = "idle"
    /\ iStage' = iStage + 1
    /\ coordFrame
    /\ UNCHANGED <<mpiError, finalized, exitCode, exitedFrom, chan,
                   nStages, nSyncs, nContinues, workerVars>>

\* Pipeline::invokeProcess, lines 238-244: MPI_Barrier returns and the
\* method returns to the stage loop, which moves to the next stage.
invokeProcess_BarrierReturn ==
    /\ pc = "process_wait"
    /\ \E rc \in MPIResults : BarrierWait(rc, "idle")
    /\ iStage' = IF pc' = "idle" THEN iStage + 1 ELSE iStage
    /\ coordFrame
    /\ UNCHANGED <<chan, nStages, nSyncs, nContinues, workerVars>>

\* Pipeline::invokeSyncSlices, line 194: broadcast of "SYNC".
invokeSyncSlices_Bcast ==
    /\ CallerRequestsSync
    /\ \E rc \in MPIResults :
         CheckedCollective(rc, BcastChars(strcpy(SYNC), bufferSize),
                           "sync_barrier")
    /\ coordFrame
    /\ UNCHANGED <<driverVars, workerVars>>

\* Mutant: invokeSyncSlices returns after the SYNC broadcast, with no
\* MPI_Barrier.
Mut_invokeSyncSlices_BarrierEnter_Skipped ==
    /\ pc = "sync_barrier"
    /\ pc' = "idle"
    /\ nSyncs' = nSyncs + 1
    /\ coordFrame
    /\ UNCHANGED <<mpiError, finalized, exitCode, exitedFrom, chan,
                   nStages, iStage, nContinues, workerVars>>

\* Pipeline::invokeSyncSlices, line 203: the coordinator enters MPI_Barrier.
invokeSyncSlices_BarrierEnter ==
    /\ pc = "sync_barrier"
    /\ CheckedCollective(MPI_SUCCESS, Barrier, "sync_wait")
    /\ coordFrame
    /\ UNCHANGED <<driverVars, workerVars>>

\* Mutant: the coordinator leaves the SYNC barrier without waiting for the
\* workers.
Mut_invokeSyncSlices_BarrierReturn_NoWait ==
    /\ pc = "sync_wait"
    /\ pc' = "idle"
    /\ nSyncs' = nSyncs + 1
    /\ coordFrame
    /\ UNCHANGED <<mpiError, finalized, exitCode, exitedFrom, chan,
                   nStages, iStage, nContinues, workerVars>>

\* Pipeline::invokeSyncSlices, lines 203-211: MPI_Barrier returns.
invokeSyncSlices_BarrierReturn ==
    /\ pc = "sync_wait"
    /\ \E rc \in MPIResults : BarrierWait(rc, "idle")
    /\ nSyncs' = IF pc' = "idle" THEN nSyncs + 1 ELSE nSyncs
    /\ coordFrame
    /\ UNCHANGED <<chan, nStages, iStage, nContinues, workerVars>>

\* Mutant: invokeContinue goes on to a barrier as invokeSyncSlices does.
Mut_invokeContinue_WithBarrier ==
    /\ CallerRequestsContinue
    /\ \E rc \in MPIResults :
         CheckedCollective(rc, BcastChars(strcpy(CONTINUE), bufferSize),
                           "sync_barrier")
    /\ coordFrame
    /\ UNCHANGED <<driverVars, workerVars>>

\* Pipeline::invokeContinue: broadcast of "CONTINUE", no barrier.
invokeContinue ==
    /\ CallerRequestsContinue
    /\ \E rc \in MPIResults :
         CheckedCollective(rc, BcastChars(strcpy(CONTINUE), bufferSize), "idle")
    /\ nContinues' = IF pc' = "idle" THEN nContinues + 1 ELSE nContinues
    /\ coordFrame
    /\ UNCHANGED <<nStages, iStage, nSyncs, workerVars>>

\* Mutant: invokeShutdown finalizes and exits by itself after the broadcast.
Mut_invokeShutdown_ThenExits ==
    /\ RunCallsShutdownFleet
    /\ \E rc \in MPIResults :
         IF rc = MPI_SUCCESS
         THEN /\ mpiError' = MPI_SUCCESS
              /\ chan' = Append(chan, BcastChars(strcpy(SHUTDOWN), bufferSize))
              /\ FinalizeAndExit(ExitSuccess)
         ELSE /\ FailedCall
              /\ UNCHANGED chan
    /\ coordFrame
    /\ UNCHANGED <<driverVars, workerVars>>

\* Mutant: invokeShutdown copies the wrong command name into the buffer.
Mut_invokeShutdown_WrongName ==
    /\ RunCallsShutdownFleet
    /\ \E rc \in MPIResults :
         CheckedCollective(rc, BcastChars(strcpy(CONTINUE), bufferSize),
                           "shutdown_sent")
    /\ coordFrame
    /\ UNCHANGED <<driverVars, workerVars>>

\* Pipeline::invokeShutdown: broadcast of "SHUTDOWN", no barrier.
invokeShutdown ==
    /\ RunCallsShutdownFleet
    /\ \E rc \in MPIResults :
         CheckedCollective(rc, BcastChars(strcpy(SHUTDOWN), bufferSize),
                           "shutdown_sent")
    /\ coordFrame
    /\ UNCHANGED <<driverVars, workerVars>>

\* Mutant: shutdown finalizes MPI and returns to the caller without exit.
Mut_shutdown_NoExit ==
    /\ pc = "shutdown_sent"
    /\ finalized' = TRUE
    /\ pc' = "idle"
    /\ coordFrame
    /\ UNCHANGED <<mpiError, exitCode, exitedFrom, chan, driverVars, workerVars>>

\* Pipeline::shutdown: MPI_Finalize(); exit(0);
shutdown ==
    /\ pc = "shutdown_sent"
    /\ FinalizeAndExit(ExitSuccess)
    /\ coordFrame
    /\ UNCHANGED <<mpiError, chan, driverVars, workerVars>>

\* ----------------------------------------------------------------- workers
\* decode(buffer): the command whose name the buffer holds, or "unknown".
decode(buf) ==
    IF CString(buf) \in Commands THEN CString(buf) ELSE <<"?">>

\* The worker's next collective call is matched with the coordinator's call
\* of the same rank in the sequence of calls on sliceIntercomm.
Matching(w) == chan[wcalls[w] + 1]

workerFrame == UNCHANGED <<coordVars, driverVars, codec>>

\* receiveLoop: the blocking broadcast receive of the command buffer and
\* the dispatch on the decoded command.
Worker_ReceiveCommand(w) ==
    /\ wpc[w] = "Listening"
    /\ Len(chan) > wcalls[w]
    /\ wcalls' = [wcalls EXCEPT ![w] = @ + 1]
    /\ LET m == Matching(w)
           c == decode(m.data)
           to == IF m.kind # "chars" THEN "Desynced"
                 ELSE IF c = PROCESS THEN "ReceivingIndex"
                 ELSE IF c = SYNC THEN "Syncing"
                 ELSE IF c = CONTINUE THEN "Listening"
                 ELSE IF c = SHUTDOWN THEN "Terminated"
                 ELSE "Failed"
       IN /\ wpc' = [wpc EXCEPT ![w] = to]
          /\ wexit' = [wexit EXCEPT ![w] = IF to = "Failed" THEN 1 ELSE @]
    /\ UNCHANGED <<wstage, wdoneStages, wsync>>
    /\ workerFrame

\* PROCESS: the receive of the companion stage index.
Worker_ReceiveStageIndex(w) ==
    /\ wpc[w] = "ReceivingIndex"
    /\ Len(chan) > wcalls[w]
    /\ wcalls' = [wcalls EXCEPT ![w] = @ + 1]
    /\ LET m == Matching(w)
       IN IF m.kind = "int"
          THEN /\ wstage' = [wstage EXCEPT ![w] = m.data[1]]
               /\ wpc' = [wpc EXCEPT ![w] = "Executing"]
          ELSE /\ wpc' = [wpc EXCEPT ![w] = "Desynced"]
               /\ UNCHANGED wstage
    /\ UNCHANGED <<wdoneStages, wsync, wexit>>
    /\ workerFrame

\* PROCESS: the per-stage callback returns and the worker enters the barrier.
Worker_ProcessCallback(w) ==
    /\ wpc[w] = "Executing"
    /\ wdoneStages' = [wdoneStages EXCEPT ![w] = @ \cup {wstage[w]}]
    /\ wcalls' = [wcalls EXCEPT ![w] = @ + 1]
    /\ wpc' = [wpc EXCEPT ![w] = "InBarrier"]
    /\ UNCHANGED <<wstage, wsync, wexit>>
    /\ workerFrame

\* SYNC: the peer-exchange callback returns and the worker enters the barrier.
Worker_SyncCallback(w) ==
    /\ wpc[w] = "Syncing"
    /\ wsync' = [wsync EXCEPT ![w] = @ + 1]
    /\ wcalls' = [wcalls EXCEPT ![w] = @ + 1]
    /\ wpc' = [wpc EXCEPT ![w] = "InBarrier"]
    /\ UNCHANGED <<wstage, wdoneStages, wexit>>
    /\ workerFrame

\* A callback raises a fatal error: the worker exits non-zero without
\* joining the barrier.
Worker_CallbackFails(w) ==
    /\ wpc[w] \in {"Executing", "Syncing"}
    /\ wpc' = [wpc EXCEPT ![w] = "Failed"]
    /\ wexit' = [wexit EXCEPT ![w] = 1]
    /\ UNCHANGED <<wcalls, wstage, wdoneStages, wsync>>
    /\ workerFrame

\* The worker's barrier call returns once the collective has completed
\* across all participants: the coordinator and every worker of the fleet
\* have entered their matching call.
Worker_BarrierReturn(w) ==
    /\ wpc[w] = "InBarrier"
    /\ Len(chan) >= wcalls[w]
    /\ \A v \in Slices : wcalls[v] >= wcalls[w]
    /\ wpc' = [wpc EXCEPT ![w] =
                 IF chan[wcalls[w]].kind = "barrier" THEN "Listening"
                 ELSE "Desynced"]
    /\ UNCHANGED <<wcalls, wstage, wdoneStages, wsync, wexit>>
    /\ workerFrame

\* -------------------------------------------------------------------- Next
Next ==
    \/ initialize
    \/ startSlices
    \/ invokeProcess_BcastCommand
    \/ invokeProcess_BcastStage
    \/ invokeProcess_BarrierEnter
    \/ invokeProcess_BarrierReturn
    \/ invokeSyncSlices_Bcast
    \/ invokeSyncSlices_BarrierEnter
    \/ invokeSyncSlices_BarrierReturn
    \/ invokeContinue
    \/ invokeShutdown
    \/ shutdown
    \/ \E w \in SliceIds : Worker_ReceiveCommand(w)
    \/ \E w \in SliceIds : Worker_ReceiveStageIndex(w)
    \/ \E w \in SliceIds : Worker_ProcessCallback(w)
    \/ \E w \in SliceIds : Worker_SyncCallback(w)
    \/ \E w \in SliceIds : Worker_CallbackFails(w)
    \/ \E w \in SliceIds : Worker_BarrierReturn(w)

Spec == Init /\ [][Next]_vars

\* A step in which no MPI call reports failure, the universe size attribute
\* is set, and no worker callback fails.
NoFailureStep ==
    /\ mpiError' = MPI_SUCCESS
    /\ flag'
    /\ \A w \in SliceIds : wpc'[w] # "Failed"

\* The runs without failures.
NextNoFailure ==
    \/ initialize /\ NoFailureStep
    \/ startSlices /\ NoFailureStep
    \/ invokeProcess_BcastCommand /\ NoFailureStep
    \/ invokeProcess_BcastStage /\ NoFailureStep
    \/ invokeProcess_BarrierEnter /\ NoFailureStep
    \/ invokeProcess_BarrierReturn /\ NoFailureStep
    \/ invokeSyncSlices_Bcast /\ NoFailureStep
    \/ invokeSyncSlices_BarrierEnter /\ NoFailureStep
    \/ invokeSyncSlices_BarrierReturn /\ NoFailureStep
    \/ invokeContinue /\ NoFailureStep
    \/ invokeShutdown /\ NoFailureStep
    \/ shutdown /\ NoFailureStep
    \/ \E w \in SliceIds : Worker_ReceiveCommand(w) /\ NoFailureStep
    \/ \E w \in SliceIds : Worker_ReceiveStageIndex(w) /\ NoFailureStep
    \/ \E w \in SliceIds : Worker_ProcessCallback(w) /\ NoFailureStep
    \/ \E w \in SliceIds : Worker_SyncCallback(w) /\ NoFailureStep
    \/ \E w \in SliceIds : Worker_BarrierReturn(w) /\ NoFailureStep

\* The processes keep running: as long as some process can take a step, a
\* step is eventually taken.
FairSpec == Init /\ [][NextNoFailure]_vars /\ WF_vars(NextNoFailure)

\* ------------------------------------------------- encoding, taken alone
\* The names an encoding is tried on: the four command names, every short
\* name over a small alphabet, the longest name that fits the buffer with
\* its terminator, and the shortest one that does not.
Alphabet == {"P", "S", "Y"}
ShortNames == UNION {[1..n -> Alphabet] : n \in 0..MaxNameLen}
LongestFitting == [i \in 1..(BufferSizeConfigured - 1) |-> "X"]
LongName == [i \in 1..BufferSizeConfigured |-> "X"]
Names == Commands \cup ShortNames \cup {LongestFitting, LongName}

\* The state configurePipeline and startSlices leave with an empty fleet,
\* and a name about to be copied into a command buffer.
CodecInit ==
    /\ pc = "idle"
    /\ mpiError = MPI_SUCCESS
    /\ flag = TRUE
    /\ universeSize = 1
    /\ nSlices = computeNSlices(1)
    /\ bufferSize = BufferSizeConfigured
    /\ spawnRequested = <<0>>
    /\ finalized = FALSE
    /\ exitCode = 0
    /\ exitedFrom = "none"
    /\ chan = <<>>
    /\ nStages = 0
    /\ iStage = 0
    /\ nSyncs = 0
    /\ nContinues = 0
    /\ wpc = [w \in SliceIds |-> "NotSpawned"]
    /\ wcalls = [w \in SliceIds |-> 0]
    /\ wstage = [w \in SliceIds |-> 0]
    /\ wdoneStages = [w \in SliceIds |-> {}]
    /\ wsync = [w \in SliceIds |-> 0]
    /\ wexit = [w \in SliceIds |-> 0]
    /\ \E name \in Names : codec = [NoCodec EXCEPT !.step = "start", !.name = name]

\* char procCommand[bufferSize]; std::strcpy(procCommand, name); and the
\* broadcast of bufferSize chars of procCommand.  strcpy checks nothing: a
\* name that does not fit is written past the end of the array, after which
\* the process either faults or goes on to broadcast the array.
Codec_Encode ==
    /\ codec.step = "start"
    /\ LET written == strcpy(codec.name)
           fits == Len(written) <= bufferSize
           sent == IF fits THEN written ELSE SubSeq(written, 1, bufferSize)
       IN \E fault \in BOOLEAN :
            /\ fault => ~fits
            /\ codec' = [codec EXCEPT
                           !.step = IF fault THEN "faulted" ELSE "encoded",
                           !.written = written,
                           !.sent = IF fault THEN <<>> ELSE sent]
    /\ UNCHANGED <<coordVars, driverVars, workerVars>>

\* The receiving side decodes the buffer it was sent.
Codec_Decode ==
    /\ codec.step = "encoded"
    /\ codec' = [codec EXCEPT !.step = "decoded", !.out = decode(codec.sent)]
    /\ UNCHANGED <<coordVars, driverVars, workerVars>>

CodecNext == Codec_Encode \/ Codec_Decode
CodecSpec == CodecInit /\ [][CodecNext]_vars

\* --------------------------------------- invokeProcess with any argument
\* A one-stage list and a caller whose first index is any integer.
ArgInit ==
    /\ pc = "constructed"
    /\ mpiError = MPI_SUCCESS
    /\ flag = TRUE
    /\ universeSize = 0
    /\ nSlices = 0
    /\ bufferSize = 0
    /\ spawnRequested = <<>>
    /\ finalized = FALSE
    /\ exitCode = 0
    /\ exitedFrom = "none"
    /\ chan = <<>>
    /\ nStages = 1
    /\ iStage \in StageArgs
    /\ nSyncs = 0
    /\ nContinues = 0
    /\ wpc = [w \in SliceIds |-> "NotSpawned"]
    /\ wcalls = [w \in SliceIds |-> 0]
    /\ wstage = [w \in SliceIds |-> 0]
    /\ wdoneStages = [w \in SliceIds |-> {}]
    /\ wsync = [w \in SliceIds |-> 0]
    /\ wexit = [w \in SliceIds |-> 0]
    /\ codec = NoCodec

ArgNext ==
    \/ initialize
    \/ startSlices
    \/ invokeProcess_AnyIndex
    \/ invokeProcess_BcastStage
    \/ invokeProcess_BarrierEnter
    \/ invokeProcess_BarrierReturn
    \/ \E w \in SliceIds : Worker_ReceiveCommand(w)
    \/ \E w \in SliceIds : Worker_ReceiveStageIndex(w)
    \/ \E w \in SliceIds : Worker_ProcessCallback(w)
    \/ \E w \in SliceIds : Worker_CallbackFails(w)
    \/ \E w \in SliceIds : Worker_BarrierReturn(w)

ArgSpec == ArgInit /\ [][ArgNext]_vars

\* ------------------------------------------------------ reading the channel
IsCommand(i, c) ==
    /\ i \in 1..Len(chan)
    /\ chan[i].kind = "chars"
    /\ CString(chan[i].data) = c
PositionsOf(c) == {i \in 1..Len(chan) : IsCommand(i, c)}
StagesBroadcast == {chan[i].data[1] : i \in {j \in 1..Len(chan) : chan[j].kind = "int"}}
CleanExit == pc = "exited" /\ exitCode = ExitSuccess
SomeFailure ==
    \/ mpiError = MPI_ERR
    \/ ~flag
    \/ \E w \in Slices : wpc[w] = "Failed"

\* ------------------------------------------------------------------ claims

\* C1: a complete run over a stage list of length nStages has issued exactly
\* nStages PROCESS broadcasts and then exactly one SHUTDOWN broadcast, the
\* k-th PROCESS carrying stage index k-1 and followed by its barrier; and in
\* every state, a PROCESS broadcast issued after an earlier one finds the
\* earlier one's barrier entered by every worker.
C1_RunIssuesStagesThenShutdown ==
    LET procs == PositionsOf(PROCESS)
    IN /\ CleanExit =>
            /\ Cardinality(procs) = nStages
            /\ PositionsOf(SHUTDOWN) = {Len(chan)}
            /\ \A i \in procs :
                 /\ i + 2 < Len(chan)
                 /\ chan[i + 1].kind = "int"
                 /\ chan[i + 1].data[1] = Cardinality({j \in procs : j < i})
                 /\ chan[i + 2].kind = "barrier"
       /\ \A i \in procs, j \in procs :
            i < j => /\ chan[i + 2].kind = "barrier"
                     /\ \A w \in Slices : wcalls[w] >= i + 2
C1_Witness ==
    /\ CleanExit
    /\ nStages >= 2
    /\ nSlices >= 2
    /\ nSyncs + nContinues > 0

\* C2: a worker running the callback of stage N+1 implies that every worker
\* finished the callback of stage N and that the coordinator returned from
\* the barrier of stage N; and runStage(N) has returned only if every worker
\* finished stage N and joined its barrier.
C2_StageLockstep ==
    /\ \A w \in Slices :
         wpc[w] = "Executing" =>
           \A N \in 0..(wstage[w] - 1) :
             /\ \A v \in Slices : N \in wdoneStages[v]
             /\ iStage > N
    /\ \A N \in 0..(iStage - 1) : \A w \in Slices : N \in wdoneStages[w]
C2_Witness ==
    /\ nSlices >= 2
    /\ \E w \in Slices : wpc[w] = "Executing" /\ wstage[w] >= 1
    /\ \E v \in Slices : wpc[v] = "Listening"

\* The kind of the collective call a worker makes next.
C3_NextKind(w) ==
    CASE wpc[w] = "Listening" -> "chars"
      [] wpc[w] = "ReceivingIndex" -> "int"
      [] wpc[w] \in {"Executing", "Syncing"} -> "barrier"
      [] OTHER -> "none"

\* C3: the coordinator's calls follow the per-command sequences (PROCESS:
\* command, stage index, barrier; SYNC: command, barrier; CONTINUE and
\* SHUTDOWN: command alone), and every collective call a worker makes or is
\* about to make is of the kind of the coordinator's matching call, so no
\* worker reads a payload of one kind as the other.
C3_SameCollectiveOrder ==
    /\ \A i \in 1..Len(chan) :
         LET follows(k, kind) == i + k <= Len(chan) => chan[i + k].kind = kind
             name == CString(chan[i].data)
         IN chan[i].kind = "chars" =>
              /\ name \in Commands
              /\ name = PROCESS => follows(1, "int") /\ follows(2, "barrier")
                                   /\ follows(3, "chars")
              /\ name = SYNC => follows(1, "barrier") /\ follows(2, "chars")
              /\ name = CONTINUE => follows(1, "chars")
              /\ name = SHUTDOWN => follows(1, "chars")
    /\ chan # <<>> => chan[1].kind = "chars"
    /\ \A w \in Slices :
         /\ wpc[w] # "Desynced"
         /\ wpc[w] = "InBarrier" /\ Len(chan) >= wcalls[w] =>
              chan[wcalls[w]].kind = "barrier"
         /\ C3_NextKind(w) # "none" /\ Len(chan) > wcalls[w] =>
              chan[wcalls[w] + 1].kind = C3_NextKind(w)
C3_Witness ==
    /\ nSlices >= 2
    /\ nSyncs > 0
    /\ iStage >= 2
    /\ \A w \in Slices : wpc[w] = "Terminated"

C5_FailureStopsCoordinator ==
    /\ [](mpiError = MPI_ERR =>
            pc = "exited" /\ exitCode # ExitSuccess /\ finalized)
    /\ [][mpiError = MPI_ERR => chan' = chan /\ mpiError' = MPI_ERR]_vars
    /\ [](\A w \in Slices :
            wpc[w] = "Failed" => \A k \in StagesBroadcast : k <= wstage[w])
C5_Witness ==
    /\ \E w \in Slices : wpc[w] = "Failed" /\ wstage[w] >= 1 /\ wstage[w] < nStages - 1
    /\ mpiError = MPI_ERR
    /\ exitedFrom = "process_wait"

\* C6: for a discovered universe size >= 1 the fleet size is universeSize - 1
\* and >= 0, the only spawn requests exactly that many workers and exactly
\* that many workers exist afterwards; the fleet size, once computed, does
\* not change.
C6_FleetSize ==
    /\ [](universeSize >= 1 =>
            /\ nSlices = universeSize - 1
            /\ nSlices >= 0
            /\ Len(spawnRequested) <= 1
            /\ \A i \in 1..Len(spawnRequested) :
                 spawnRequested[i] = universeSize - 1
            /\ Cardinality({w \in SliceIds : wpc[w] # "NotSpawned"})
                 \in {0, universeSize - 1}
            /\ pc \notin {"constructed", "initialized", "exited"} =>
                 /\ Len(spawnRequested) = 1
                 /\ Cardinality({w \in SliceIds : wpc[w] # "NotSpawned"})
                      = universeSize - 1)
    /\ [][pc # "constructed" =>
            nSlices' = nSlices /\ universeSize' = universeSize]_vars
C6_Witness ==
    /\ flag
    /\ universeSize >= 3
    /\ spawnRequested = <<2>>
    /\ iStage >= 1

\* C7: with no failures, every run ends with all workers terminated with
\* code 0 after SHUTDOWN and the coordinator exited with code 0.
AllExitedZero ==
    /\ CleanExit
    /\ \A w \in Slices : wpc[w] = "Terminated" /\ wexit[w] = 0
C7_RunTerminates == <>[]AllExitedZero
C7_Witness ==
    /\ AllExitedZero
    /\ ~SomeFailure
    /\ nSlices = MaxSlices
    /\ nStages = MaxStages
    /\ Len(chan) = 3 * nStages + 1

\* C8: each worker runs the peer-exchange callback at most once per SYNC
\* broadcast and exactly once per SYNC round the coordinator has returned
\* from or moved past; while a worker runs it, the SYNC is the last command
\* on the channel (no later PROCESS has been broadcast) and every stage
\* broadcast before it has been finished by every worker and returned from
\* by the coordinator.
C8_SyncRound ==
    LET syncs == PositionsOf(SYNC)
        stages == StagesBroadcast
    IN \A w \in Slices :
         /\ wsync[w] <= Cardinality({j \in syncs : j <= wcalls[w]})
         /\ wsync[w] >= nSyncs
         /\ \A i \in syncs :
              Len(chan) > i + 1 =>
                wsync[w] >= Cardinality({j \in syncs : j <= i})
         /\ wpc[w] = "Syncing" =>
              /\ wcalls[w] \in syncs
              /\ Len(chan) <= wcalls[w] + 1
              /\ \A N \in stages :
                   /\ iStage > N
                   /\ \A v \in Slices : N \in wdoneStages[v]
C8_Witness ==
    /\ nSlices >= 2
    /\ IsCommand(4, SYNC)
    /\ IsCommand(6, PROCESS)
    /\ \A w \in Slices : wsync[w] = 1 /\ wpc[w] = "Executing" /\ wstage[w] = 1

BootstrapFailure ==
    pc = "exited" /\ mpiError = MPI_ERR /\ exitedFrom \in {"constructed", "initialized"}
MidRunFailure ==
    pc = "exited" /\ mpiError = MPI_ERR /\ exitedFrom \notin {"constructed", "initialized"}
DiscoveryFailed == ~flag
SpawnFailed == exitedFrom = "initialized"
C10_AbortBeforeAnyCollective ==
    (DiscoveryFailed \/ SpawnFailed) =>
        /\ chan = <<>>
        /\ pc = "exited" => exitCode # ExitSuccess

\* C11: with an empty fleet (universeSize 1, nSlices 0) and no call reporting
\* failure, a run over a non-empty stage list completes: the coordinator
\* issues every PROCESS round (command, stage index, barrier) with itself as
\* the only participant, broadcasts SHUTDOWN last and exits with code 0.
EmptyFleetRunDone ==
    /\ CleanExit
    /\ nSlices = 0
    /\ spawnRequested = <<0>>
    /\ Cardinality(PositionsOf(PROCESS)) = nStages
    /\ StagesBroadcast = 0..(nStages - 1)
    /\ \A i \in PositionsOf(PROCESS) :
         chan[i + 1].kind = "int" /\ chan[i + 2].kind = "barrier"
    /\ IsCommand(Len(chan), SHUTDOWN)
C11_EmptyFleetRunCompletes ==
    (pc = "initialized" /\ universeSize = 1 /\ nStages >= 1) ~> EmptyFleetRunDone
C11_Witness ==
    /\ EmptyFleetRunDone
    /\ universeSize = 1
    /\ nStages = MaxStages
    /\ mpiError = MPI_SUCCESS

C13_IndexFollowsCommand ==
    /\ \A i \in 1..Len(chan) :
         /\ IsCommand(i, PROCESS) /\ i < Len(chan) =>
              chan[i + 1].kind = "int" /\ chan[i + 1].count = 1
         /\ chan[i].kind = "int" => i > 1 /\ IsCommand(i - 1, PROCESS)
    /\ pc = "process_bcast_stage" => IsCommand(Len(chan), PROCESS)
    /\ pc = "process_barrier" => chan[Len(chan)] = BcastInt(iStage)
    /\ pc = "process_wait" => chan[Len(chan) - 1] = BcastInt(iStage)
    /\ \A w \in Slices :
         wpc[w] = "Executing" =>
            /\ wstage[w] = iStage
            /\ chan[wcalls[w]] = BcastInt(iStage)
            /\ IsCommand(wcalls[w] - 1, PROCESS)
C13_Witness ==
    /\ nSlices >= 2
    /\ pc = "process_wait"
    /\ iStage = 2
    /\ \E w, v \in Slices :
         /\ wpc[w] = "Executing" /\ wstage[w] = 2
         /\ wpc[v] = "InBarrier" /\ 2 \in wdoneStages[v]

\* C14: every broadcast on the channel, command or stage index, has the
\* coordinator as its root (it passes MPI_ROOT), and only a step of the
\* coordinator puts a collective on the channel: a worker step adds none, so
\* no worker is ever the root of a broadcast.
C14_CoordinatorIsRoot ==
    /\ [](\A i \in 1..Len(chan) :
            /\ chan[i].kind \in {"chars", "int"} => chan[i].root = MPI_ROOT
            /\ chan[i].kind \in {"chars", "int", "barrier"})
    /\ [][chan' # chan =>
            /\ UNCHANGED workerVars
            /\ pc \in {"idle", "process_bcast_stage", "process_barrier",
                        "sync_barrier"}
            /\ SubSeq(chan', 1, Len(chan)) = chan
            /\ Len(chan') = Len(chan) + 1]_vars
C14_Witness ==
    /\ nSlices >= 2
    /\ IsCommand(4, SYNC)
    /\ IsCommand(1, PROCESS)
    /\ chan[2].kind = "int" /\ chan[2].root = MPI_ROOT
    /\ \A w \in Slices : wcalls[w] >= 4

\* C15: while some worker has not entered the barrier the coordinator waits
\* in, the coordinator issues no further collective and leaves the barrier
\* only by the failure exit; a worker waiting in a barrier that some other
\* worker has not entered stays in it; and the coordinator completes a
\* PROCESS or SYNC round only when every worker of the fleet has joined that
\* round's barrier.
C15_StragglerStallsFleet ==
    /\ [][(pc \in {"process_wait", "sync_wait"}
             /\ \E w \in Slices : wcalls[w] < Len(chan))
           => (/\ chan' = chan
               /\ pc' \in {pc, "exited"}
               /\ pc' = "exited" => exitCode' = ExitFailure
               /\ UNCHANGED driverVars)]_vars
    /\ [][\A w \in Slices :
            (wpc[w] = "InBarrier" /\ \E v \in Slices : wcalls[v] < wcalls[w])
            => wpc'[w] = "InBarrier"]_vars
    /\ [][(iStage' # iStage \/ nSyncs' # nSyncs)
           => (/\ chan[Len(chan)].kind = "barrier"
               /\ \A w \in Slices :
                    /\ wcalls[w] = Len(chan)
                    /\ wpc[w] \in {"InBarrier", "Listening"})]_vars
C15_Witness ==
    /\ nSlices >= 2
    /\ pc = "process_wait"
    /\ iStage = 1
    /\ \E w, v \in Slices :
         /\ wpc[w] = "Failed" /\ wcalls[w] < Len(chan)
         /\ wpc[v] = "InBarrier" /\ wcalls[v] = Len(chan)

\* C16: invokeContinue puts exactly one collective on the channel, the
\* CONTINUE command broadcast, and is back at its caller with the stage
\* position and the workers untouched; no stage index broadcast or barrier
\* follows a CONTINUE; a worker that receives CONTINUE runs no callback and
\* is listening again.
C16_ContinueOnly ==
    /\ [][(nContinues' # nContinues
            \/ (/\ chan' # chan
                /\ chan'[Len(chan')].kind = "chars"
                /\ CString(chan'[Len(chan')].data) = CONTINUE))
           => (/\ pc = "idle"
               /\ chan' = Append(chan, BcastChars(strcpy(CONTINUE), bufferSize))
               /\ pc' = "idle"
               /\ nContinues' = nContinues + 1
               /\ UNCHANGED <<nStages, iStage, nSyncs, workerVars>>)]_vars
    /\ [](\A i \in PositionsOf(CONTINUE) :
            i < Len(chan) => chan[i + 1].kind = "chars")
    /\ [][\A w \in Slices :
            (wcalls'[w] # wcalls[w] /\ IsCommand(wcalls[w] + 1, CONTINUE))
            => (/\ wpc[w] = "Listening"
                /\ wpc'[w] = "Listening"
                /\ wcalls'[w] = wcalls[w] + 1
                /\ wstage'[w] = wstage[w]
                /\ wdoneStages'[w] = wdoneStages[w]
                /\ wsync'[w] = wsync[w])]_vars
C16_Witness ==
    /\ nSlices >= 2
    /\ nContinues = 1
    /\ iStage = 1
    /\ pc = "idle"
    /\ IsCommand(Len(chan), CONTINUE)
    /\ \A w \in Slices : wcalls[w] = Len(chan) /\ wpc[w] = "Listening"

\* C17: every command broadcast on the channel carries the same number of
\* chars, the buffer size configured by initialize (256), whatever the
\* command, and the name with its terminator lies within that length; a
\* command has been broadcast only after initialize has set the buffer size.
C17_FixedBufferLength ==
    /\ \A i \in 1..Len(chan) :
         chan[i].kind = "chars" =>
            /\ chan[i].count = BufferSizeConfigured
            /\ chan[i].count = bufferSize
            /\ Len(chan[i].data) <= chan[i].count
            /\ decode(chan[i].data) \in Commands
    /\ chan # <<>> => pc # "constructed" /\ bufferSize = BufferSizeConfigured
    /\ pc = "constructed" => chan = <<>>
C17_Witness ==
    /\ nSlices >= 2
    /\ IsCommand(Len(chan), SHUTDOWN)
    /\ PositionsOf(SYNC) # {}
    /\ PositionsOf(PROCESS) # {}
    /\ \A i \in PositionsOf(SYNC) \cup PositionsOf(PROCESS) \cup PositionsOf(SHUTDOWN) :
         chan[i].count = BufferSizeConfigured
    /\ \A w \in Slices : wpc[w] = "Terminated"

\* C18: the step that broadcasts SHUTDOWN adds that one broadcast and no
\* barrier, and leaves the coordinator running with the channel not yet
\* released; from there the separate shutdown step is possible whatever the
\* workers are doing, and it is that step which releases the channel and
\* exits with code 0, adding nothing to the channel.
C18_ShutdownWithoutBarrier ==
    /\ [][(/\ chan' # chan
            /\ chan'[Len(chan')].kind = "chars"
            /\ CString(chan'[Len(chan')].data) = SHUTDOWN)
           => (/\ pc = "idle"
               /\ chan' = Append(chan, BcastChars(strcpy(SHUTDOWN), bufferSize))
               /\ pc' = "shutdown_sent"
               /\ ~finalized'
               /\ UNCHANGED workerVars)]_vars
    /\ [](pc = "shutdown_sent" =>
            /\ ~finalized
            /\ IsCommand(Len(chan), SHUTDOWN)
            /\ ENABLED shutdown)
    /\ [][(pc = "shutdown_sent" /\ pc' # pc)
           => (/\ pc' = "exited"
               /\ finalized'
               /\ exitCode' = ExitSuccess
               /\ chan' = chan
               /\ UNCHANGED workerVars)]_vars
C18_Witness ==
    /\ nSlices >= 2
    /\ exitedFrom = "shutdown_sent"
    /\ finalized
    /\ iStage >= 1
    /\ \A w \in Slices : wpc[w] = "Listening" /\ wcalls[w] < Len(chan)

\* C19: whatever integer invokeProcess is called with, negative or beyond
\* the end of the stage list, the coordinator broadcasts PROCESS, then that
\* very integer, then enters the barrier, and returns to its caller once the
\* barrier returns; it exits only when an MPI call reports failure (or on the
\* fault of the unchecked universe size read), never because of the index.
C19_IndexUnvalidated ==
    /\ [](pc = "exited" => mpiError = MPI_ERR \/ exitCode = SegvExit)
    /\ [](pc = "process_barrier" => chan[Len(chan)] = BcastInt(iStage))
    /\ [](\A w \in Slices : wpc[w] = "Executing" => wstage[w] = iStage)
    /\ [][(pc = "idle" /\ pc' # "idle")
           => (\/ pc' = "exited" /\ mpiError' = MPI_ERR
               \/ /\ pc' = "process_bcast_stage"
                  /\ chan' = Append(chan, BcastChars(strcpy(PROCESS), bufferSize)))]_vars
    /\ [][iStage' # iStage
           => (/\ Len(chan) >= 3
               /\ IsCommand(Len(chan) - 2, PROCESS)
               /\ chan[Len(chan) - 1] = BcastInt(iStage)
               /\ chan[Len(chan)].kind = "barrier"
               /\ mpiError' = MPI_SUCCESS
               /\ pc' = "idle"
               /\ iStage' = iStage + 1)]_vars
C19_Witness ==
    /\ pc = "idle"
    /\ mpiError = MPI_SUCCESS
    /\ nSlices >= 1
    /\ nStages = 1
    /\ iStage = MaxArg + 1
    /\ StagesBroadcast = StageArgs
    /\ \A w \in Slices : wdoneStages[w] = StageArgs
====
